---- MODULE Spec2Model ----
(***************************************************************************)
(* TrendWatchAI: the scrape -> dedupe -> persist -> alert-fanout pipeline  *)
(* (app/main.py process_alerts_pipeline, app/scraper.py NewsScraper,       *)
(* app/models.py) as a state machine.                                      *)
(*                                                                         *)
(* The store is the SQLite database of models.py: committed rows of        *)
(* news_items and alerts, and the single database write lock.  Every       *)
(* session is created with autoflush=False (models.py:10), so objects      *)
(* handed to db.add() stay pending in the session until db.commit() and    *)
(* are invisible to every query, the session's own queries included.       *)
(*                                                                         *)
(* Two threads can execute process_alerts_pipeline: the thread started     *)
(* once by lifespan (main.py:40, "eager") and the APScheduler worker that  *)
(* runs the interval job (main.py:29-36, "job").  add_job is called        *)
(* without max_instances, so APScheduler's default of one running          *)
(* instance per job applies to "job" and only to it.                       *)
(*                                                                         *)
(* Spec is the pipeline with its two threads.  The other specifications    *)
(* exercise one function on its own, with the pipeline at rest; the        *)
(* variable call holds that function's input, position and result:         *)
(*   ScraperSpec   scrape_all_sources, source by source (scraper.py)       *)
(*   PhoneSpec     validate_brazilian_phone (whatsapp.py)                  *)
(*   SendSpec      send_whatsapp_alert (whatsapp.py)                       *)
(*   ClassifySpec  categorize_news on texts as character sequences         *)
(*   ScoreSpec     calculate_impact_score on titles as character sequences *)
(***************************************************************************)
EXTENDS Integers, Sequences, FiniteSets, TLC

\* ------------------------------------------------------------ bounds
NumUrls == 2          \* distinct article URLs the sources can list
NumUsers == 2         \* rows of the users table
MaxCands == 2         \* candidates in all_articles of one scrape run
MaxHits == 1          \* high-impact terms matched by a candidate's title
MaxTime == 1          \* clock ticks (datetime.utcnow() advances)
MaxTriggers == 1      \* firings of the interval trigger
TrialLength == 1      \* trial_expires = created_at + TrialLength

\* ------------------------------------------------- program constants
ImpactThreshold == 2  \* NewsItem.impact_score >= 2
ImpactCap == 5        \* min(score, 5)

Runners == {"eager", "job"}
Urls == 1..NumUrls
Users == 1..NumUsers
Categories == {"economy", "geopolitics", "markets"}
Plans == {"free", "pro"}
\* categories the modelled sources produce
CandCategories == {"economy", "markets"}
\* rows of the categories table: the signup default (main.py:245-250) and a
\* user who kept only "economy" in the settings form (main.py:406-420)
PrefChoices ==
  {[economy |-> TRUE, geopolitics |-> TRUE, markets |-> TRUE],
   [economy |-> TRUE, geopolitics |-> FALSE, markets |-> FALSE]}
NoLock == "none"
\* no function is being exercised on its own
NoCall == [fn |-> "none"]

VARIABLES
  news,        \* committed rows of news_items, in id order
  alerts,      \* committed rows of alerts: how many per (user_id, news_url)
  lock,        \* holder of the SQLite write lock, or NoLock
  users,       \* the users table joined with categories (read-only input)
  titles,      \* per URL, the high-impact terms in the headline it is listed with
  now,         \* datetime.utcnow()
  run,         \* per thread: position and locals of process_alerts_pipeline
  triggers,    \* firings of the interval trigger so far
  notified,    \* history: (user, url) pairs send_whatsapp_alert was called for
  overlapped,  \* history: two executions were in progress at the same time
  fanned,      \* history: ids selected by a run that committed
  scopedN,     \* history: rows stored when the last commit of a run happened
  call         \* a function exercised on its own: its input, position and result

vars == <<news, alerts, lock, users, titles, now, run, triggers, notified, overlapped,
          fanned, scopedN, call>>

Pairs == Users \X Urls

\* ------------------------------------------------------ pure helpers
\* Mutant: the score without its cap.
calculate_impact_score_Uncapped(hits) == 1 + hits

\* scraper.py:150-164; hits is the number of high_impact_terms found in the title
calculate_impact_score(hits) ==
  IF 1 + hits < ImpactCap THEN 1 + hits ELSE ImpactCap

\* A scraped article dict (scraper.py:132-139) as far as persistence reads it:
\* the URL, the category categorize_news gave the text fetched this time, and
\* the headline (by the number of high_impact_terms in it).
Candidates ==
  {c \in [url : Urls, category : CandCategories, hits : 0..MaxHits] :
     c.hits = titles[c.url]}

\* Mutant: the row created as already processed.
NewsItemOf_Processed(c) ==
  [url |-> c.url, category |-> c.category,
   score |-> calculate_impact_score(c.hits), processed |-> TRUE]

\* NewsItem(...) of scraper.py:188-197
NewsItemOf(c) ==
  [url |-> c.url, category |-> c.category,
   score |-> calculate_impact_score(c.hits), processed |-> FALSE]

\* db.query(NewsItem).filter(NewsItem.url == url).first() is not None;
\* autoflush is off, so only committed rows are seen.
UrlStored(url) == \E i \in 1..Len(news) : news[i].url = url

\* Mutant: the url column without its UNIQUE constraint.
UniqueUrl_NotEnforced(rows) == FALSE

\* UNIQUE constraint of news_items.url (models.py:63), checked when the
\* pending rows are flushed by db.commit().
UniqueUrlViolated(rows) ==
  \/ \E i \in 1..Len(rows) : UrlStored(rows[i].url)
  \/ \E i, j \in 1..Len(rows) : i # j /\ rows[i].url = rows[j].url

\* main.py:128-131
WantsCategory(u, cat) ==
  \/ (cat = "economy" /\ users[u].prefs.economy)
  \/ (cat = "geopolitics" /\ users[u].prefs.geopolitics)
  \/ (cat = "markets" /\ users[u].prefs.markets)

\* Mutant: a trial that expires exactly at the evaluation time still counts.
PlanActive_Inclusive(u, t) ==
  users[u].plan # "free" \/ users[u].trial_expires >= t

\* main.py:134
PlanActive(u, t) == users[u].plan # "free" \/ users[u].trial_expires > t

\* users_query.all() of main.py:125-137
EligibleUsers(cat, t) == {u \in Users : WantsCategory(u, cat) /\ PlanActive(u, t)}

\* Mutant: the selection query without its processed == False filter.
Selectable_IgnoresProcessed(row) == row.score >= ImpactThreshold

\* Mutant: the selection query without its impact_score filter.
Selectable_AnyScore(row) == row.processed = FALSE

\* main.py:118-121, the filter of the selection query
Selectable(row) == row.processed = FALSE /\ row.score >= ImpactThreshold

\* main.py:140-145; autoflush is off, so only committed rows are seen.
AlertExists(u, url) == alerts[<<u, url>>] > 0

RECURSIVE SeqOfSet(_)
\* rows come back in id order
SeqOfSet(S) ==
  IF S = {} THEN <<>>
  ELSE LET m == CHOOSE x \in S : \A y \in S : x <= y
       IN <<m>> \o SeqOfSet(S \ {m})

Min(S) == CHOOSE x \in S : \A y \in S : x <= y

\* The locals of an execution that has not started or has ended.
\*   n, newItems, scrape: scrape_all_sources (all_articles consumed so far,
\*     the session's pending NewsItems, how the commit ended)
\*   sel: unprocessed_news still to do, current item first
\*   todo: users_query.all() still to do
\*   pend: the session's pending Alerts, as (user, item id)
\*   marked: ids the session's transaction has updated to processed
\*   trouble: the worst a per-user iteration of this run met: "failed" (the
\*     dispatcher returned False) or "raised" (an exception caught at 173)
Fresh(pcv) ==
  [pc |-> pcv, n |-> 0, newItems |-> <<>>, scrape |-> "none", sel |-> <<>>, todo |-> {},
   pend |-> {}, marked |-> {}, trouble |-> "none"]

\* pc "returned": the body ran to its end; "caught": the handler of
\* main.py:184 ran and the function returned normally; "propagated": an
\* exception left the function.
Active(r) == run[r].pc \notin {"idle", "returned", "caught", "propagated"}

\* Mutant: the body without its try/except.
PipelineHandler_Missing == "propagated"

\* main.py:110,184-185: try/except Exception around the whole body.
PipelineHandler == "caught"

\* Mutant: the UPDATE inside the per-user loop.
UserLoopDone_Early(r) == TRUE

\* main.py:137-178: the UPDATE follows the per-user loop.
UserLoopDone(r) == run[r].todo = {}

\* Mutant: the Alert kept only when the dispatch succeeded.
AlertKept_OnlyDelivered(success) == success

\* main.py:156-171: db.add(alert) precedes the dispatch, whose result is
\* only printed.
AlertKept(success) == TRUE

\* ------------------------------------------------------------- Init
UserRows == [plan : Plans, trial_expires : {TrialLength}, prefs : PrefChoices]

\* The row the signup handler creates (main.py:234-252, models.py:22-24).
SignupRow ==
  [plan |-> "free", trial_expires |-> TrialLength,
   prefs |-> [economy |-> TRUE, geopolitics |-> TRUE, markets |-> TRUE]]

\* lifespan has run: the scheduler is started and the eager thread is
\* executing process_alerts_pipeline (main.py:29-40).  User 1 is as signup
\* left it; the other users' plan and preferences are arbitrary.
Init ==
  /\ news = <<>>
  /\ alerts = [p \in Pairs |-> 0]
  /\ lock = NoLock
  /\ users \in {t \in [Users -> UserRows] : t[1] = SignupRow}
  /\ titles \in [Urls -> 0..MaxHits]
  /\ now = 0
  /\ run = [r \in Runners |-> Fresh(IF r = "eager" THEN "scrape" ELSE "idle")]
  /\ triggers = 0
  /\ notified = {}
  /\ overlapped = FALSE
  /\ fanned = {}
  /\ scopedN = 0
  /\ call = NoCall

\* ---------------------------------------------------------- actions
\* scraper.py:172-199, one iteration of "for article_data in all_articles"
\* for the next article the sources yield.
ScrapeCandidate(r) ==
  /\ run[r].pc = "scrape"
  /\ run[r].n < MaxCands
  /\ \E c \in Candidates :
       run' = [run EXCEPT
                 ![r].n = @ + 1,
                 ![r].newItems =
                    IF UrlStored(c.url) THEN @ ELSE Append(@, NewsItemOf(c))]
  /\ UNCHANGED <<news, alerts, lock, users, titles, now, triggers, notified,
                 overlapped, fanned, scopedN, call>>

\* scraper.py:201-208: db.commit() flushes the pending rows and commits; an
\* IntegrityError of the flush, or any other error of the commit (the
\* database is locked), is caught and the batch rolled back.
ScrapeCommit(r) ==
  /\ run[r].pc = "scrape"
  /\ \/ /\ ~UniqueUrlViolated(run[r].newItems)
        /\ run[r].newItems = <<>> \/ lock = NoLock
        /\ news' = news \o run[r].newItems
        /\ run' = [run EXCEPT ![r].pc = "select", ![r].newItems = <<>>,
                              ![r].scrape = "committed"]
     \/ /\ UniqueUrlViolated(run[r].newItems)
        /\ lock = NoLock
        /\ news' = news
        /\ run' = [run EXCEPT ![r].pc = "select", ![r].newItems = <<>>,
                              ![r].scrape = "integrity"]
     \/ /\ run[r].newItems # <<>>
        /\ news' = news
        /\ run' = [run EXCEPT ![r].pc = "select", ![r].newItems = <<>>,
                              ![r].scrape = "failed"]
  /\ UNCHANGED <<alerts, lock, users, titles, now, triggers, notified,
                 overlapped, fanned, scopedN, call>>

\* main.py:118-121
SelectNews(r) ==
  /\ run[r].pc = "select"
  /\ LET ids == {i \in 1..Len(news) : Selectable(news[i])}
     IN run' = [run EXCEPT
                  ![r].pc = IF ids = {} THEN "commit" ELSE "users",
                  ![r].n = 0, ![r].scrape = "none",
                  ![r].sel = SeqOfSet(ids)]
  /\ UNCHANGED <<news, alerts, lock, users, titles, now, triggers, notified,
                 overlapped, fanned, scopedN, call>>

\* main.py:125-137, users_query.all() for the item at the head of the loop
QueryUsers(r) ==
  /\ run[r].pc = "users"
  /\ LET item == news[Head(run[r].sel)]
         us == EligibleUsers(item.category, now)
     IN run' = [run EXCEPT ![r].pc = "alert", ![r].todo = us]
  /\ UNCHANGED <<news, alerts, lock, users, titles, now, triggers, notified,
                 overlapped, fanned, scopedN, call>>

\* main.py:137-175, one iteration of the per-user loop: the existence check,
\* then db.add(alert) and send_whatsapp_alert, which returns True or False.
\* The last branch is an exception raised before db.add (the existence query
\* failing), caught at main.py:173-175.
EvaluateUser(r) ==
  /\ run[r].pc = "alert"
  /\ run[r].todo # {}
  /\ LET u == Min(run[r].todo)
         id == Head(run[r].sel)
         url == news[id].url
         rest == [run EXCEPT ![r].todo = @ \ {u}]
     IN \/ /\ AlertExists(u, url)
           /\ run' = rest
           /\ notified' = notified
        \/ /\ ~AlertExists(u, url)
           /\ \E success \in BOOLEAN :
                run' = [rest EXCEPT
                          ![r].pend = IF AlertKept(success) THEN @ \cup {<<u, id>>}
                                      ELSE @,
                          ![r].trouble = IF success \/ @ = "raised" THEN @
                                         ELSE "failed"]
           /\ notified' = notified \cup {<<u, url>>}
        \/ /\ run' = [rest EXCEPT ![r].trouble = "raised"]
           /\ notified' = notified
  /\ UNCHANGED <<news, alerts, lock, users, titles, now, triggers, overlapped, fanned,
                 scopedN, call>>

\* main.py:178: the UPDATE runs in the session's transaction and takes the
\* database write lock, which is held until commit or rollback.
MarkProcessed(r) ==
  /\ run[r].pc = "alert"
  /\ UserLoopDone(r)
  /\ lock \in {NoLock, r}
  /\ lock' = r
  /\ run' = [run EXCEPT
               ![r].marked = @ \cup {Head(run[r].sel)},
               ![r].sel = Tail(@),
               ![r].todo = {},
               ![r].pc = IF Tail(run[r].sel) = <<>> THEN "commit" ELSE "users"]
  /\ UNCHANGED <<news, alerts, users, titles, now, triggers, notified,
                 overlapped, fanned, scopedN, call>>

\* main.py:180-182: the pending alerts are flushed and the transaction,
\* with the processed flags, is committed.
Commit(r) ==
  /\ run[r].pc = "commit"
  /\ lock \in {NoLock, r}
  /\ alerts' = [p \in Pairs |->
                  alerts[p] + Cardinality({e \in run[r].pend :
                                 e[1] = p[1] /\ news[e[2]].url = p[2]})]
  /\ news' = [i \in 1..Len(news) |->
                IF i \in run[r].marked THEN [news[i] EXCEPT !.processed = TRUE]
                ELSE news[i]]
  /\ lock' = NoLock
  /\ fanned' = fanned \cup run[r].marked
  /\ scopedN' = Len(news)
  /\ run' = [run EXCEPT ![r] = Fresh("returned")]
  /\ UNCHANGED <<users, titles, now, triggers, notified, overlapped, call>>

\* An exception outside the per-user try (a query, the UPDATE or the commit
\* raising, e.g. "database is locked"): control leaves the body for the
\* handler of main.py:184; the session is dropped, its transaction rolled
\* back and its pending objects lost.
Abandon(r) ==
  /\ run[r].pc \in {"select", "users", "alert", "commit"}
  /\ run[r].pc = "alert" => run[r].todo = {}
  /\ lock' = IF lock = r THEN NoLock ELSE lock
  /\ run' = [run EXCEPT ![r] = Fresh(PipelineHandler)]
  /\ UNCHANGED <<news, alerts, users, titles, now, triggers, notified,
                 overlapped, fanned, scopedN, call>>

\* main.py:29-36: the interval trigger fires; with one instance of the job
\* still running the firing is skipped.
Trigger ==
  /\ triggers < MaxTriggers
  /\ triggers' = triggers + 1
  /\ run' = IF Active("job") THEN run
            ELSE [run EXCEPT !["job"] = Fresh("scrape")]
  /\ overlapped' = (overlapped \/ (~Active("job") /\ Active("eager")))
  /\ UNCHANGED <<news, alerts, lock, users, titles, now, notified, fanned, scopedN, call>>

Tick ==
  /\ now < MaxTime
  /\ now' = now + 1
  /\ UNCHANGED <<news, alerts, lock, users, titles, run, triggers, notified,
                 overlapped, fanned, scopedN, call>>

Step(r) ==
  \/ ScrapeCandidate(r)
  \/ ScrapeCommit(r)
  \/ SelectNews(r)
  \/ QueryUsers(r)
  \/ EvaluateUser(r)
  \/ MarkProcessed(r)
  \/ Commit(r)
  \/ Abandon(r)

Next ==
  \/ \E r \in Runners : Step(r)
  \/ Trigger
  \/ Tick

Spec == Init /\ [][Next]_vars

\* The same program started with every user as signup left it and every
\* headline high-impact, under the scheduling the threads get: a thread that
\* can take a step eventually takes one.  Every database call returns or
\* raises within its timeout, so a step is never blocked for ever.
FairInit ==
  /\ Init
  /\ users = [u \in Users |-> SignupRow]
  /\ titles = [url \in Urls |-> MaxHits]

FairSpec ==
  FairInit /\ [][Next]_vars /\ \A r \in Runners : WF_vars(Step(r))

\* ------------------------------------------- scrape_all_sources alone
\* The scraper run on its own (scraper.py:215-217), source by source and
\* article by article, any number of times one after the other.
NumSources == 3       \* len(self.sources)
MaxListed == 1        \* articles one source yields in one run
MaxRuns == 2          \* runs of the scraper

\* what scrape_source can return for a source whose listing was fetched
Listings ==
  UNION {[1..n -> Candidates] : n \in 0..MaxListed}

\* The locals of scrape_all_sources at its start (scraper.py:168-169), and
\* history: the rows stored then (before), what each source returned
\* (yielded), the sources whose fetch or parsing raised (failedSrc).
ScraperStart(runs) ==
  [fn |-> "scrape_all_sources", pc |-> "sources", runs |-> runs, k |-> 0,
   all_articles |-> <<>>, i |-> 0, pending |-> <<>>, outcome |-> "none",
   before |-> news, yielded |-> <<>>, failedSrc |-> {}]

\* Mutant: scrape_source without its try/except.
SourceFailureContained_Missing == FALSE

\* scraper.py:97,145-146: an exception of the fetch or the parsing is caught
\* inside scrape_source.
SourceFailureContained == TRUE

\* Mutant: each row written as it is added, so that those before a failure stay.
Rollback_KeepsFlushed(before, pending) ==
  IF pending = <<>> THEN before ELSE Append(before, pending[1])

\* scraper.py:204-206, db.rollback(): the store is as it was.
Rollback(before, pending) == before

\* scraper.py:172-175, one iteration of "for source in self.sources":
\* scrape_source returns the articles of the listing, or [] when the fetch
\* or the parsing raised (scraper.py:93-148).
ScrapeSource ==
  /\ call.fn = "scrape_all_sources"
  /\ call.pc = "sources"
  /\ call.k < NumSources
  /\ \E fails \in BOOLEAN : \E listed \in Listings :
       /\ fails => listed = <<>>
       /\ IF fails /\ ~SourceFailureContained
          THEN /\ call' = [call EXCEPT !.pc = "done", !.outcome = "rolled_back"]
               /\ news' = Rollback(news, call.pending)
          ELSE /\ call' = [call EXCEPT
                             !.k = @ + 1,
                             !.all_articles = @ \o listed,
                             !.yielded = Append(@, listed),
                             !.failedSrc = IF fails THEN @ \cup {call.k + 1} ELSE @,
                             !.pc = IF call.k + 1 = NumSources THEN "persist" ELSE @]
               /\ news' = news
  /\ UNCHANGED <<alerts, lock, users, titles, now, run, triggers, notified,
                 overlapped, fanned, scopedN>>

\* scraper.py:178-199, one iteration of "for article_data in all_articles"
PersistArticle ==
  /\ call.fn = "scrape_all_sources"
  /\ call.pc = "persist"
  /\ call.i < Len(call.all_articles)
  /\ LET a == call.all_articles[call.i + 1]
     IN call' = [call EXCEPT
                   !.i = @ + 1,
                   !.pending = IF UrlStored(a.url) THEN @
                               ELSE Append(@, NewsItemOf(a))]
  /\ UNCHANGED <<news, alerts, lock, users, titles, now, run, triggers, notified,
                 overlapped, fanned, scopedN>>

\* scraper.py:201-208 after the loop: db.commit() writes the pending rows in
\* one transaction; the UNIQUE constraint failing makes it raise, and the
\* handler rolls the batch back.
CommitBatch ==
  /\ call.fn = "scrape_all_sources"
  /\ call.pc = "persist"
  /\ call.i = Len(call.all_articles)
  /\ IF UniqueUrlViolated(call.pending)
     THEN /\ news' = Rollback(news, call.pending)
          /\ call' = [call EXCEPT !.pc = "done", !.outcome = "rolled_back"]
     ELSE /\ news' = news \o call.pending
          /\ call' = [call EXCEPT !.pc = "done", !.outcome = "committed"]
  /\ UNCHANGED <<alerts, lock, users, titles, now, run, triggers, notified,
                 overlapped, fanned, scopedN>>

\* scraper.py:204-208: a query of the loop or the commit raises for a reason
\* of the database; the handler rolls the batch back.
PersistFails ==
  /\ call.fn = "scrape_all_sources"
  /\ call.pc = "persist"
  /\ news' = Rollback(news, call.pending)
  /\ call' = [call EXCEPT !.pc = "done", !.outcome = "rolled_back"]
  /\ UNCHANGED <<alerts, lock, users, titles, now, run, triggers, notified,
                 overlapped, fanned, scopedN>>

\* run_news_scraper is called again (scraper.py:210-213)
run_news_scraper ==
  /\ call.fn = "scrape_all_sources"
  /\ call.pc = "done"
  /\ call.runs < MaxRuns
  /\ call' = ScraperStart(call.runs + 1)
  /\ UNCHANGED <<news, alerts, lock, users, titles, now, run, triggers, notified,
                 overlapped, fanned, scopedN>>

\* The pipeline at rest: nothing stored, no execution in progress.
AtRest ==
  /\ news = <<>>
  /\ alerts = [p \in Pairs |-> 0]
  /\ lock = NoLock
  /\ users = [u \in Users |-> SignupRow]
  /\ now = 0
  /\ run = [r \in Runners |-> Fresh("idle")]
  /\ triggers = 0
  /\ notified = {}
  /\ overlapped = FALSE
  /\ fanned = {}
  /\ scopedN = 0

ScraperInit ==
  /\ AtRest
  /\ titles \in [Urls -> 0..MaxHits]
  /\ call = ScraperStart(1)

ScraperNext ==
  \/ ScrapeSource
  \/ PersistArticle
  \/ CommitBatch
  \/ PersistFails
  \/ run_news_scraper

ScraperSpec == ScraperInit /\ [][ScraperNext]_vars

\* --------------------------------------- validate_brazilian_phone alone
\* A str is the sequence of its characters, each a one-character string;
\* "U+0663" stands for ARABIC-INDIC DIGIT THREE, a decimal digit that is not
\* one of 0-9.
AsciiDigits == {"0", "1", "2", "3", "4", "5", "6", "7", "8", "9"}
OtherDecimals == {"U+0663"}

\* re's \d on a str pattern: any Unicode decimal digit
IsDecimal(ch) == ch \in AsciiDigits \cup OtherDecimals

\* re.match(r'^55[1-9][0-9]9[0-9]{8}$', clean_phone) is not None.  "$" also
\* matches before a final newline.
MatchesMobilePattern(s) ==
  LET body == IF s # <<>> /\ s[Len(s)] = "\n" THEN SubSeq(s, 1, Len(s) - 1) ELSE s
  IN /\ Len(body) = 13
     /\ body[1] = "5"
     /\ body[2] = "5"
     /\ body[3] \in AsciiDigits \ {"0"}
     /\ body[4] \in AsciiDigits
     /\ body[5] = "9"
     /\ \A i \in 6..13 : body[i] \in AsciiDigits

\* whatsapp.py:88
IsElevenDigitMobile(clean_phone) ==
  Len(clean_phone) = 11 /\ clean_phone[3] = "9"

\* Mutant: the 10-digit branch adding the country code only.
WithMobileDigit_PrefixOnly(clean_phone) == <<"5", "5">> \o clean_phone

\* whatsapp.py:93-95: f"55{area_code}9{number}"
WithMobileDigit(clean_phone) ==
  <<"5", "5">> \o SubSeq(clean_phone, 1, 2) \o <<"9">>
    \o SubSeq(clean_phone, 3, Len(clean_phone))

\* whatsapp.py:77-101; the result is the returned str, or ValueError raised
validate_brazilian_phone(phone_number) ==
  LET stripped == SelectSeq(phone_number, IsDecimal)
      clean_phone ==
        IF IsElevenDigitMobile(stripped) THEN <<"5", "5">> \o stripped
        ELSE IF Len(stripped) = 10
             THEN WithMobileDigit(stripped)
             ELSE stripped
  IN IF MatchesMobilePattern(clean_phone)
     THEN [raised |-> FALSE, value |-> clean_phone]
     ELSE [raised |-> TRUE, value |-> "ValueError"]

\* The phone numbers tried: an optional country code, an area code, an
\* optional mobile digit, a subscriber number and an optional extra digit, as
\* a user types them; and two short strings.
CountryParts ==
  {<<>>,
   <<"5", "5">>,
   <<"+", "5", "5", " ">>,
   <<"5">>}
AreaParts ==
  {<<"5", "1">>,
   <<"(", "5", "1", ")", " ">>,
   <<"0", "5">>,
   <<"1", "U+0663">>}
MobileParts ==
  {<<>>,
   <<"9">>,
   <<"8">>}
NumberParts ==
  {<<"9", "9", "9", "9", "9", "9", "9", "9">>,
   <<"9", "9", "9", "9", "-", "9", "9", "9", "9">>,
   <<"1", "2", "3", "4", "5", "6", "7">>}
ExtraParts ==
  {<<>>,
   <<"0">>}
PhoneInputs ==
  {c \o a \o m \o n \o x :
     c \in CountryParts, a \in AreaParts, m \in MobileParts,
     n \in NumberParts, x \in ExtraParts}
  \cup {<<>>, <<"1", "2", "3">>}

PhoneInit ==
  /\ AtRest
  /\ titles = [url \in Urls |-> 0]
  /\ \E phone_number \in PhoneInputs :
       call = [fn |-> "validate_brazilian_phone", pc |-> "called",
               phone_number |-> phone_number,
               first |-> [raised |-> FALSE, value |-> <<>>],
               second |-> [raised |-> FALSE, value |-> <<>>]]

\* validate_brazilian_phone(phone_number) returns or raises
ValidatePhone ==
  /\ call.fn = "validate_brazilian_phone"
  /\ call.pc = "called"
  /\ call' = [call EXCEPT !.pc = IF validate_brazilian_phone(call.phone_number).raised
                                 THEN "rejected" ELSE "returned",
                          !.first = validate_brazilian_phone(call.phone_number)]
  /\ UNCHANGED <<news, alerts, lock, users, titles, now, run, triggers, notified,
                 overlapped, fanned, scopedN>>

\* the returned value is validated again (a stored number is what
\* send_whatsapp_alert is later called with)
ValidateAgain ==
  /\ call.fn = "validate_brazilian_phone"
  /\ call.pc = "returned"
  /\ call' = [call EXCEPT !.pc = "revalidated",
                          !.second = validate_brazilian_phone(call.first.value)]
  /\ UNCHANGED <<news, alerts, lock, users, titles, now, run, triggers, notified,
                 overlapped, fanned, scopedN>>

PhoneNext == ValidatePhone \/ ValidateAgain

PhoneSpec == PhoneInit /\ [][PhoneNext]_vars

\* ------------------------------------------- send_whatsapp_alert alone
OkStatus == 200       \* response.status_code == 200

\* the recipients tried: numbers validate_brazilian_phone accepts and rejects
SendPhones ==
  {ph \in PhoneInputs :
     /\ Len(ph) \in {0, 3} \cup 12..14
     /\ \A i \in 1..Len(ph) : ph[i] \in AsciiDigits \cup {"-"}}

\* What requests.post does within its timeout (whatsapp.py:58-63): it raises
\* (connection error, timeout), or returns a response with a status code and
\* a body that is JSON or is not.
Replies ==
  {[error |-> TRUE, status_code |-> 0, json |-> FALSE]}
  \cup [error : {FALSE}, status_code : {OkStatus, 201, 401, 500}, json : BOOLEAN]

SendInit ==
  /\ AtRest
  /\ titles = [url \in Urls |-> 0]
  /\ \E key \in BOOLEAN : \E ph \in SendPhones :
       call = [fn |-> "send_whatsapp_alert", pc |-> "called",
               WASENDER_API_KEY |-> key, to_phone_number |-> ph,
               formatted_number |-> <<>>, posts |-> 0,
               reply |-> [error |-> FALSE, status_code |-> 0, json |-> FALSE],
               result |-> FALSE]

\* whatsapp.py:21-23
SendCheckKey ==
  /\ call.fn = "send_whatsapp_alert"
  /\ call.pc = "called"
  /\ call' = IF ~call.WASENDER_API_KEY
             THEN [call EXCEPT !.pc = "returned", !.result = FALSE]
             ELSE [call EXCEPT !.pc = "validate"]
  /\ UNCHANGED <<news, alerts, lock, users, titles, now, run, triggers, notified,
                 overlapped, fanned, scopedN>>

\* whatsapp.py:36-40
SendValidate ==
  /\ call.fn = "send_whatsapp_alert"
  /\ call.pc = "validate"
  /\ LET v == validate_brazilian_phone(call.to_phone_number)
     IN call' = IF v.raised
                THEN [call EXCEPT !.pc = "returned", !.result = FALSE]
                ELSE [call EXCEPT !.pc = "post", !.formatted_number = v.value]
  /\ UNCHANGED <<news, alerts, lock, users, titles, now, run, triggers, notified,
                 overlapped, fanned, scopedN>>

\* whatsapp.py:58-75: the request is sent; on status 200 response.json() is
\* evaluated before True is returned, and raises when the body is not JSON;
\* every exception ends in the handler of line 73, which returns False.
SendPost ==
  /\ call.fn = "send_whatsapp_alert"
  /\ call.pc = "post"
  /\ \E reply \in Replies :
       call' = [call EXCEPT
                  !.pc = "returned",
                  !.posts = @ + 1,
                  !.reply = reply,
                  !.result = IF reply.error THEN FALSE
                             ELSE IF reply.status_code = OkStatus
                                  THEN (IF reply.json THEN TRUE ELSE FALSE)
                                  ELSE FALSE]
  /\ UNCHANGED <<news, alerts, lock, users, titles, now, run, triggers, notified,
                 overlapped, fanned, scopedN>>

SendNext == SendCheckKey \/ SendValidate \/ SendPost

SendSpec == SendInit /\ [][SendNext]_vars

\* ------------------------------------------------- the text functions
\* str.lower(): the upper-case letters of the texts tried and what they
\* become; every other character is left as it is.
UpperLetters ==
  <<"A", "B", "C", "D", "E", "F", "G", "H", "I", "J", "K", "L", "M", "N",
    "O", "P", "Q", "R", "S", "T", "U", "V", "W", "X", "Y", "Z", "Á", "É",
    "Í", "Ó", "Ú", "Â", "Ê", "Ô", "Ã", "Õ", "Ç">>
LowerLetters ==
  <<"a", "b", "c", "d", "e", "f", "g", "h", "i", "j", "k", "l", "m", "n",
    "o", "p", "q", "r", "s", "t", "u", "v", "w", "x", "y", "z", "á", "é",
    "í", "ó", "ú", "â", "ê", "ô", "ã", "õ", "ç">>

LowerOf(ch) ==
  IF \E k \in 1..Len(UpperLetters) : UpperLetters[k] = ch
  THEN LowerLetters[CHOOSE k \in 1..Len(UpperLetters) : UpperLetters[k] = ch]
  ELSE ch

RECURSIVE lower(_)
lower(text) ==
  IF text = <<>> THEN <<>> ELSE <<LowerOf(Head(text))>> \o lower(Tail(text))

\* Python's "keyword in text" for two str
Contains(text, keyword) ==
  \E i \in 1..(Len(text) - Len(keyword) + 1) :
    SubSeq(text, i, i + Len(keyword) - 1) = keyword

\* scraper.py:11-26, the lists as they are written
ECONOMIC_KEYWORDS ==
  <<<<"e", "c", "o", "n", "o", "m", "i", "a">>,
    <<"m", "e", "r", "c", "a", "d", "o">>,
    <<"i", "n", "f", "l", "a", "ç", "ã", "o">>,
    <<"p", "i", "b">>,
    <<"j", "u", "r", "o", "s">>,
    <<"s", "e", "l", "i", "c">>,
    <<"d", "ó", "l", "a", "r">>,
    <<"r", "e", "a", "l">>,
    <<"b", "o", "l", "s", "a">>,
    <<"b", "o", "v", "e", "s", "p", "a">>,
    <<"n", "a", "s", "d", "a", "q">>,
    <<"i", "n", "v", "e", "s", "t", "i", "m", "e", "n", "t", "o">>,
    <<"b", "a", "n", "c", "o", " ", "c", "e", "n", "t", "r", "a", "l">>,
    <<"f", "e", "d">>,
    <<"e", "c", "o", "n", "o", "m", "i", "a">>,
    <<"r", "e", "c", "e", "s", "s", "ã", "o">>,
    <<"c", "r", "e", "s", "c", "i", "m", "e", "n", "t", "o">>,
    <<"d", "e", "s", "e", "m", "p", "r", "e", "g", "o">>,
    <<"e", "x", "p", "o", "r", "t", "a", "ç", "ã", "o">>,
    <<"i", "m", "p", "o", "r", "t", "a", "ç", "ã", "o">>>>

GEOPOLITICAL_KEYWORDS ==
  <<<<"g", "e", "o", "p", "o", "l", "í", "t", "i", "c", "a">>,
    <<"e", "l", "e", "i", "ç", "ã", "o">>,
    <<"g", "u", "e", "r", "r", "a">>,
    <<"c", "o", "n", "f", "l", "i", "t", "o">>,
    <<"d", "i", "p", "l", "o", "m", "a", "c", "i", "a">>,
    <<"o", "t", "a", "n">>,
    <<"o", "n", "u">>,
    <<"c", "h", "i", "n", "a">>,
    <<"e", "s", "t", "a", "d", "o", "s", " ", "u", "n", "i", "d", "o", "s">>,
    <<"r", "ú", "s", "s", "i", "a">>,
    <<"p", "o", "l", "í", "t", "i", "c", "a", " ", "i", "n", "t", "e", "r", "n", "a", "c", "i", "o", "n", "a", "l">>,
    <<"s", "a", "n", "ç", "õ", "e", "s">>,
    <<"a", "c", "o", "r", "d", "o">>,
    <<"t", "r", "a", "t", "a", "d", "o">>,
    <<"p", "r", "e", "s", "i", "d", "e", "n", "t", "e">>,
    <<"g", "o", "v", "e", "r", "n", "o">>,
    <<"p", "a", "r", "l", "a", "m", "e", "n", "t", "o">>,
    <<"c", "o", "n", "g", "r", "e", "s", "s", "o">>>>

MARKET_KEYWORDS ==
  <<<<"a", "ç", "õ", "e", "s">>,
    <<"c", "o", "m", "m", "o", "d", "i", "t", "i", "e", "s">>,
    <<"p", "e", "t", "r", "ó", "l", "e", "o">>,
    <<"o", "u", "r", "o">>,
    <<"c", "r", "y", "p", "t", "o">>,
    <<"b", "i", "t", "c", "o", "i", "n">>,
    <<"e", "t", "h", "e", "r", "e", "u", "m">>,
    <<"f", "o", "r", "e", "x">>,
    <<"c", "â", "m", "b", "i", "o">>,
    <<"t", "r", "a", "d", "i", "n", "g">>,
    <<"h", "e", "d", "g", "e", " ", "f", "u", "n", "d">>,
    <<"i", "p", "o">>,
    <<"f", "u", "s", "ã", "o">>,
    <<"a", "q", "u", "i", "s", "i", "ç", "ã", "o">>>>

\* sum(1 for keyword in keywords if keyword in text): one per list entry
KeywordScore(keywords, text) ==
  Cardinality({k \in 1..Len(keywords) : Contains(text, keywords[k])})

\* the keys of the scores dict in insertion order (scraper.py:85-89)
ScoreKeys == <<"economy", "geopolitics", "markets">>

\* max(scores, key=scores.get): the first key, in the order of the dict,
\* whose value no other value exceeds
FirstMaxKey(values) ==
  LET i == CHOOSE i \in 1..Len(values) :
             /\ \A j \in 1..Len(values) : values[j] <= values[i]
             /\ \A j \in 1..(i - 1) : values[j] < values[i]
  IN ScoreKeys[i]

\* scraper.py:77-91
categorize_news(title, content) ==
  LET text == lower(title \o <<" ">> \o content)
      values == <<KeywordScore(ECONOMIC_KEYWORDS, text),
                  KeywordScore(GEOPOLITICAL_KEYWORDS, text),
                  KeywordScore(MARKET_KEYWORDS, text)>>
  IN IF \E j \in 1..3 : values[j] > 0 THEN FirstMaxKey(values) ELSE "economy"

\* ----------------------------------------------- categorize_news alone
\* the headlines and excerpts tried; "Conteúdo não disponível" is what
\* extract_text_from_url returns for a page without paragraphs
HeadlineParts ==
  {<<"E", "c", "o", "n", "o", "m", "i", "a", " ", "c", "r", "e", "s", "c", "e">>,
   <<"G", "u", "e", "r", "r", "a", " ", "n", "a", " ", "C", "h", "i", "n", "a">>,
   <<"B", "i", "t", "c", "o", "i", "n", " ", "e", " ", "o", "u", "r", "o">>,
   <<"T", "e", "s", "o", "u", "r", "o", " ", "d", "i", "r", "e", "t", "o">>,
   <<"N", "a", "d", "a", " ", "d", "e", " ", "n", "o", "v", "o", " ", "h", "o", "j", "e">>,
   <<"M", "e", "r", "c", "a", "d", "o", " ", "e", " ", "P", "I", "B">>}
Excerpts ==
  {<<>>,
   <<"c", "o", "n", "f", "l", "i", "t", "o", " ", "e", " ", "g", "o", "v", "e", "r", "n", "o">>,
   <<"p", "e", "t", "r", "ó", "l", "e", "o">>,
   <<"a", "l", "t", "a", " ", "d", "o", " ", "d", "ó", "l", "a", "r">>,
   <<"e", "c", "o", "n", "o", "m", "i", "a", " ", "e", "m", " ", "a", "l", "t", "a">>,
   <<"b", "i", "t", "c", "o", "i", "n", " ", "e", " ", "o", "u", "r", "o">>,
   <<"C", "o", "n", "t", "e", "ú", "d", "o", " ", "n", "ã", "o", " ", "d", "i", "s", "p", "o", "n", "í", "v", "e", "l">>,
   <<"E", "r", "r", "o", " ", "a", "o", " ", "e", "x", "t", "r", "a", "i", "r", " ", "c", "o", "n", "t", "e", "ú", "d", "o">>}
Headlines ==
  HeadlineParts \cup {a \o <<":", " ">> \o b : a \in HeadlineParts, b \in HeadlineParts}

ClassifyInit ==
  /\ AtRest
  /\ titles = [url \in Urls |-> 0]
  /\ \E title \in Headlines : \E content \in Excerpts :
       call = [fn |-> "categorize_news", pc |-> "called", title |-> title,
               content |-> content, result |-> "none"]

\* scraper.py:130
Categorize ==
  /\ call.fn = "categorize_news"
  /\ call.pc = "called"
  /\ call' = [call EXCEPT !.pc = "returned",
                          !.result = categorize_news(call.title, call.content)]
  /\ UNCHANGED <<news, alerts, lock, users, titles, now, run, triggers, notified,
                 overlapped, fanned, scopedN>>

ClassifySpec == ClassifyInit /\ [][Categorize]_vars

\* ---------------------------------------- calculate_impact_score alone
\* scraper.py:152-155
high_impact_terms ==
  <<<<"q", "u", "e", "b", "r", "a">>,
    <<"c", "r", "a", "s", "h">>,
    <<"c", "r", "i", "s", "e">>,
    <<"e", "m", "e", "r", "g", "ê", "n", "c", "i", "a">>,
    <<"u", "r", "g", "e", "n", "t", "e">>,
    <<"h", "i", "s", "t", "ó", "r", "i", "c", "o">>,
    <<"r", "e", "c", "o", "r", "d", "e">>,
    <<"m", "á", "x", "i", "m", "a">>,
    <<"m", "í", "n", "i", "m", "a">>,
    <<"a", "l", "e", "r", "t", "a">>>>

\* scraper.py:157-162: one more for every term of the list found in the
\* lower-cased title
TermHits(title) == KeywordScore(high_impact_terms, lower(title))

\* the titles tried: one, two or three headlines joined
TitleParts ==
  {<<"M", "e", "r", "c", "a", "d", "o", " ", "e", "m", " ", "c", "r", "i", "s", "e", " ", "h", "i", "s", "t", "ó", "r", "i", "c", "a">>,
   <<"M", "e", "r", "c", "a", "d", "o", " ", "e", "m", " ", "c", "r", "i", "s", "e">>,
   <<"R", "e", "c", "o", "r", "d", "e", " ", "h", "i", "s", "t", "ó", "r", "i", "c", "o">>,
   <<"C", "R", "A", "S", "H">>,
   <<"A", "l", "e", "r", "t", "a", " ", "u", "r", "g", "e", "n", "t", "e", ":", " ", "q", "u", "e", "b", "r", "a", " ", "e", " ", "e", "m", "e", "r", "g", "ê", "n", "c", "i", "a">>,
   <<"m", "á", "x", "i", "m", "a", " ", "e", " ", "m", "í", "n", "i", "m", "a">>,
   <<"D", "i", "a", " ", "c", "a", "l", "m", "o", " ", "n", "a", " ", "b", "o", "l", "s", "a">>}
Titles ==
  TitleParts
  \cup {a \o <<" ", "-", " ">> \o b : a \in TitleParts, b \in TitleParts}
  \cup {a \o <<" ", "-", " ">> \o b \o <<" ", "-", " ">> \o c :
          a \in TitleParts, b \in TitleParts, c \in TitleParts}

ScoreInit ==
  /\ AtRest
  /\ titles = [url \in Urls |-> 0]
  /\ \E title \in Titles :
       call = [fn |-> "calculate_impact_score", pc |-> "called",
               title |-> title, result |-> 0]

\* scraper.py:185
ScoreTitle ==
  /\ call.fn = "calculate_impact_score"
  /\ call.pc = "called"
  /\ call' = [call EXCEPT !.pc = "returned",
                          !.result = calculate_impact_score(TermHits(call.title))]
  /\ UNCHANGED <<news, alerts, lock, users, titles, now, run, triggers, notified,
                 overlapped, fanned, scopedN>>

ScoreSpec == ScoreInit /\ [][ScoreTitle]_vars

\* ---------------------------------------------------- claim helpers
Range(q) == {q[i] : i \in 1..Len(q)}

\* The ids run r selected: those it has marked and those still to do.
Selected(r) == run[r].marked \cup Range(run[r].sel)

\* Pending Alert objects of all sessions for the pair p = (user, url).
PendCount(r, p) ==
  Cardinality({e \in run[r].pend : e[1] = p[1] /\ news[e[2]].url = p[2]})

RowsWithUrl(rows, url) == {i \in 1..Len(rows) : rows[i].url = url}

\* ------------------------------------------------------------- C1
\* In a history of runs executed one after the other: no run has selected an
\* item that a committed run selected before, and there is at most one
\* Alert, committed or pending, per (user, news URL), each committed one for
\* an item a committed run selected.
SequentialRunsAlertOnce ==
  ~overlapped =>
    /\ \A r \in Runners : Selected(r) \cap fanned = {}
    /\ \A p \in Pairs :
         /\ alerts[p] + PendCount("eager", p) + PendCount("job", p) <= 1
         /\ alerts[p] > 0 => \E i \in fanned : news[i].url = p[2]

C4_NoConcurrentRuns == ~(Active("eager") /\ Active("job"))

C6_UrlUnique ==
  \A i, j \in 1..Len(news) : i # j => news[i].url # news[j].url

\* A scrape run's batch was rejected by the UNIQUE constraint while rows are
\* stored.
C6_Witness ==
  /\ Len(news) >= 1
  /\ \E r \in Runners : run[r].scrape = "integrity"

\* ------------------------------------------------------------- C7
\* C7: when a scrape run (not overlapping another run) ends without a
\* database failure from outside, every URL it had a new candidate for is
\* stored exactly once, also when its list held the same URL twice.
C7_DedupIdempotent ==
  [][\A r \in Runners :
       (/\ run[r].pc = "scrape"
        /\ run'[r].pc = "select"
        /\ run'[r].scrape # "failed"
        /\ ~overlapped)
       => \A k \in 1..Len(run[r].newItems) :
            Cardinality(RowsWithUrl(news', run[r].newItems[k].url)) = 1]_vars

C9_LowImpactMarked ==
  ~overlapped =>
    \A i \in 1..scopedN : news[i].score < ImpactThreshold => news[i].processed

\* C9 amended: a stored row with impact score below 2 is never selected by
\* a run: no Alert is created for it and its processed flag stays false.
C9_LowImpactUntouched ==
  \A i \in 1..Len(news) :
    news[i].score < ImpactThreshold =>
      /\ ~news[i].processed
      /\ \A r \in Runners :
           /\ i \notin Selected(r)
           /\ \A e \in run[r].pend : e[2] # i
      /\ \A u \in Users : alerts[<<u, news[i].url>>] = 0

\* A run committed with a score-1 row stored, and the row is unprocessed.
C9_Witness ==
  \E i \in 1..scopedN :
    /\ news[i].score < ImpactThreshold
    /\ ~news[i].processed
    /\ fanned # {}

\* ------------------------------------------------------------ C10
\* C10: no execution of process_alerts_pipeline ends with an exception
\* leaving the function, and every execution in progress eventually ends:
\* the job is then free for the next firing of the trigger.
C10_NeverPropagates ==
  /\ [](\A r \in Runners : run[r].pc # "propagated")
  /\ \A r \in Runners : Active(r) ~> ~Active(r)

\* Both kinds of failure happened: an execution ended in the handler of
\* main.py:184 while the other one, whose scrape batch had been rolled back,
\* is still in progress.
C10_Witness ==
  \E r, q \in Runners :
    /\ run[r].pc = "caught"
    /\ run[q].pc = "select"
    /\ run[q].scrape = "failed"

\* ------------------------------------------------------------ C11
\* C11: when scrape_all_sources has returned, either the rows stored before
\* the run are unchanged and every candidate of the run whose URL was not
\* stored before is a row committed by the run (and the run committed
\* nothing else), or, an exception having occurred during persistence, the
\* store is exactly as it was before the run.
C11_AllOrNothing ==
  (call.fn = "scrape_all_sources" /\ call.pc = "done") =>
    LET old == Len(call.before)
        added == {news[n] : n \in (old + 1)..Len(news)}
        fresh == {j \in 1..Len(call.all_articles) :
                    \A n \in 1..old :
                      call.before[n].url # call.all_articles[j].url}
    IN \/ /\ call.outcome = "committed"
          /\ Len(news) >= old
          /\ SubSeq(news, 1, old) = call.before
          /\ added = {NewsItemOf(call.all_articles[j]) : j \in fresh}
       \/ /\ call.outcome = "rolled_back"
          /\ news = call.before

\* A second run whose batch held new rows was rolled back with rows stored.
C11_Witness ==
  /\ call.fn = "scrape_all_sources"
  /\ call.pc = "done"
  /\ call.outcome = "rolled_back"
  /\ call.before # <<>>
  /\ call.pending # <<>>

\* ------------------------------------------------------------ C12
RECURSIVE Flatten(_)
Flatten(qs) == IF qs = <<>> THEN <<>> ELSE Head(qs) \o Flatten(Tail(qs))

\* C12: whichever sources fail, the run leaves the source loop only after
\* every configured source was processed; a source whose fetch or parsing
\* raised contributed no candidate; the candidates the persistence loop
\* works on are those of all the other sources, in the order of the
\* sources; and a run that commits has examined every one of them.
C12_FailingSourceIsolated ==
  call.fn = "scrape_all_sources" =>
    /\ Len(call.yielded) = call.k
    /\ \A f \in call.failedSrc : call.yielded[f] = <<>>
    /\ call.all_articles = Flatten(call.yielded)
    /\ call.pc # "sources" =>
         /\ call.k = NumSources
         /\ call.failedSrc \subseteq 1..NumSources
    /\ call.outcome = "committed" => call.i = Len(call.all_articles)

\* The first source failed and a later one yielded an article, which the
\* run committed.
C12_Witness ==
  /\ call.fn = "scrape_all_sources"
  /\ call.outcome = "committed"
  /\ 1 \in call.failedSrc
  /\ call.yielded[NumSources] # <<>>
  /\ Len(news) > Len(call.before)

\* ------------------------------------------------------------ C13
\* C13: a step of a scrape run, its commit included, leaves every stored
\* row as it was, whatever candidates the run had (in particular a
\* processed row whose URL was scraped again stays processed), and every
\* row it adds to the store or holds pending has processed = false.
C13_ScrapeLeavesStoredRows ==
  [][\A r \in Runners :
       (run[r].pc = "scrape" /\ run'[r] # run[r]) =>
         /\ Len(news') >= Len(news)
         /\ \A i \in 1..Len(news) : news'[i] = news[i]
         /\ \A i \in (Len(news) + 1)..Len(news') : ~news'[i].processed
         /\ \A k \in 1..Len(run'[r].newItems) :
              ~run'[r].newItems[k].processed]_vars

\* A scrape run had candidates, all of them for URLs already stored, and
\* has committed; the stored rows, all processed earlier, still are.
C13_Witness ==
  /\ run["job"].pc = "select"
  /\ run["job"].scrape = "committed"
  /\ run["job"].n >= 1
  /\ news # <<>>
  /\ \A i \in 1..Len(news) : news[i].processed

\* ------------------------------------------------------------ C15
RECURSIVE DigitsOf(_)
\* the characters of s that are decimal digits, in order
DigitsOf(s) ==
  IF s = <<>> THEN <<>>
  ELSE IF Head(s) \in AsciiDigits \cup OtherDecimals
       THEN <<Head(s)>> \o DigitsOf(Tail(s))
       ELSE DigitsOf(Tail(s))

\* 55, a digit 1-9, a digit 0-9, 9, then 8 digits
WellFormedMobile(s) ==
  /\ Len(s) = 13
  /\ SubSeq(s, 1, 2) = <<"5", "5">>
  /\ s[3] \in {"1", "2", "3", "4", "5", "6", "7", "8", "9"}
  /\ s[5] = "9"
  /\ \A i \in {4} \cup 6..13 :
       s[i] \in {"0", "1", "2", "3", "4", "5", "6", "7", "8", "9"}

Example11 == <<"5", "1", "9", "9", "9", "9", "9", "9", "9", "9", "9">>
Example10 == <<"5", "1", "9", "9", "9", "9", "9", "9", "9", "9">>
ExampleOut == <<"5", "5", "5", "1", "9", "9", "9", "9", "9", "9", "9", "9", "9">>

C14_SendResult ==
  (call.fn = "send_whatsapp_alert" /\ call.pc = "returned") =>
    LET valid == ~validate_brazilian_phone(call.to_phone_number).raised
    IN /\ call.result \in BOOLEAN
       /\ (call.WASENDER_API_KEY /\ valid) =>
            /\ call.posts = 1
            /\ call.result <=> (~call.reply.error /\ call.reply.status_code = 200)
       /\ ~(call.WASENDER_API_KEY /\ valid) =>
            /\ call.result = FALSE
            /\ call.posts = 0

\* ------------------------------------------------------------ C16
\* the distinct keywords of a vocabulary present in the lower-cased text
Present(keywords, text) ==
  {kw \in {keywords[k] : k \in 1..Len(keywords)} : Contains(lower(text), kw)}

\* C16: categorize_news returns the category whose count of distinct
\* keywords present in the lower-cased text is strictly the highest, and
\* "economy" on any tie for the highest count and when all counts are zero.
C16_CategorizeReference ==
  (call.fn = "categorize_news" /\ call.pc = "returned") =>
    LET text == call.title \o <<" ">> \o call.content
        e == Cardinality(Present(ECONOMIC_KEYWORDS, text))
        g == Cardinality(Present(GEOPOLITICAL_KEYWORDS, text))
        m == Cardinality(Present(MARKET_KEYWORDS, text))
    IN call.result = IF g > e /\ g > m THEN "geopolitics"
                     ELSE IF m > e /\ m > g THEN "markets"
                     ELSE "economy"

\* ------------------------------------------------------------ C17
ExampleTitle ==
  <<"M", "e", "r", "c", "a", "d", "o", " ", "e", "m", " ", "c", "r", "i", "s", "e", " ", "h", "i", "s", "t", "ó", "r", "i", "c", "a">>

\* the result for a title with some set of high-impact terms present
ScoreRule(title, result) ==
  LET found == Present(high_impact_terms, title)
  IN /\ result \in 1..5
     /\ Cardinality(found) < 4 => result = 1 + Cardinality(found)
     /\ Cardinality(found) >= 4 => result = 5

\* C17 as stated: the score is 1 plus the number of high-impact terms that
\* are substrings of the lower-cased title, capped at 5, and the title
\* "Mercado em crise histórica" scores 3.
C17_ImpactScoreAsStated ==
  (call.fn = "calculate_impact_score" /\ call.pc = "returned") =>
    /\ ScoreRule(call.title, call.result)
    /\ call.title = ExampleTitle => call.result = 3

\* C17 amended: the score is 1 plus the number of high-impact terms that
\* are substrings of the lower-cased title, capped at 5 (so 5 for six or
\* more terms), and the title "Mercado em crise histórica" scores 2.
C17_ImpactScore ==
  (call.fn = "calculate_impact_score" /\ call.pc = "returned") =>
    /\ ScoreRule(call.title, call.result)
    /\ Cardinality(Present(high_impact_terms, call.title)) >= 6 => call.result = 5
    /\ call.title = ExampleTitle => call.result = 2

\* A title with six high-impact terms, the example title among its parts,
\* was scored.
C17_Witness ==
  /\ call.fn = "calculate_impact_score"
  /\ call.pc = "returned"
  /\ Cardinality(Present(high_impact_terms, call.title)) >= 6
  /\ SubSeq(call.title, 1, Len(ExampleTitle)) = ExampleTitle
  /\ call.result = 5

====
